---------------------------- MODULE Spec2Model ----------------------------
(***************************************************************************)
(* The semantic analyser and code generator of compiler.py: the recursive  *)
(* evaluator eval / eval_block walking a program, the compile-time frame   *)
(* stack, loop stack, function table, literal pool, unique counter and     *)
(* the emitted assembly.                                                   *)
(*                                                                         *)
(* The program text is the input: each step evaluates one more expression  *)
(* drawn from a small set, or leaves the innermost open block.  The open   *)
(* constructs (block, if, while, function) are the pending activations of  *)
(* eval / eval_block and are kept in ctl.  Assembly text is a sequence of  *)
(* template instances [op, a, s]: template name, numeric and text fields.  *)
(***************************************************************************)
EXTENDS Integers, Sequences, FiniteSets, TLC

VARIABLES
  STACK_FRAMES,    \* compiler.py:172  list of frames, last is current
  UNIQUE_COUNTER,  \* compiler.py:180
  LOOP_IDS,        \* compiler.py:186  list of <<loop id, block depth>>
  FUNCTIONS,       \* compiler.py:194  dict in insertion order
  LITERALS,        \* compiler.py:197
  asm,             \* the assembly buffer the running eval appends to
  ctl,             \* pending activations of eval_block, innermost last
  out,             \* contents of OUTFILE, <<>> while not written
  pc,              \* "run" | "error" (sys.exit) | "crash" (IndexError) | "done"
  nexpr,           \* number of expressions evaluated so far
  last             \* the expression eval was last entered with

vars == <<STACK_FRAMES, UNIQUE_COUNTER, LOOP_IDS, FUNCTIONS, LITERALS,
          asm, ctl, out, pc, nexpr, last>>

\* Size of the programs explored: expressions evaluated in one compilation.
MaxExprs == 3

None == -1

---------------------------------------------------------------------------
\* Parsed expressions (parse): an atom is a token, a compound is [kw, args].

A(t) == [atom |-> TRUE, kw |-> t, args |-> <<>>]

C(k, a) == [atom |-> FALSE, kw |-> k, args |-> a]

TYPES == {"UNDEF", "INT", "STRING_LIT", "STRING"}

Digits == {"0", "1", "2"}

NegDigits == {"-1"}

StrLits == {"'a'"}

isdigit(t) == t \in Digits

\* expr.startswith('-') and expr[1:].isdigit()
is_negative(t) == t \in NegDigits

is_str_lit(t) == t \in StrLits

---------------------------------------------------------------------------
\* The template bank (module assembly): one instruction per template use.

Ins(op, a, s) == [op |-> op, a |-> a, s |-> s]

PUSH_RESULT == Ins("push_result", 0, "")

POP_LOCAL_VARIABLE == Ins("pop_local", 0, "")

GET_LOCAL_VARIABLE(off) == Ins("get_local", off, "")

GET_PARAMETER(off) == Ins("get_param", off, "")

CLEAR_STACK(n) == Ins("clear_stack", n, "")

CALL_EXTENSION(kw) == Ins("call_ext", 0, kw)

FUNCTION_CALL(name, n) == Ins("function_call", n, name)

EXTENSIONS == {"print", "println", "print_i", "println_i", "free_str",
               "Int2Str", "String", "Concat", "Substr", "Reverse",
               "Upper", "Lower", "len"}

UNARIES == {"neg"}

BINARIES == {"add"}

COMPARISONS == {"lt"}

LOGICALS == {"and", "or", "not"}

---------------------------------------------------------------------------
\* Helpers

RECURSIVE flatten(_)
flatten(l) == IF l = <<>> THEN <<>> ELSE Head(l) \o flatten(Tail(l))

Last(s) == s[Len(s)]

ButLast(s) == SubSeq(s, 1, Len(s) - 1)

Take(s, n) == SubSeq(s, 1, IF n < Len(s) THEN n ELSE Len(s))

Max(S) == CHOOSE m \in S : \A k \in S : k <= m

Min(S) == CHOOSE m \in S : \A k \in S : m <= k

CurFrame == Last(STACK_FRAMES)

\* A counter that hands out its value without advancing.
get_unique_count_stuck(uc) == uc

get_unique_count(uc) == uc + 1

\* [pos, type] of the last binding called name in the flattened blocks.
find_variable(name, stack_frame) ==
  LET f == flatten(stack_frame)
      hits == {i \in 1..Len(f) : f[i].name = name}
  IN IF hits = {} THEN [pos |-> None, type |-> "UNDEF"]
     ELSE [pos |-> Max(hits) - 1, type |-> f[Max(hits)].type]

\* [pos, type] of the first parameter called name.
find_parameter(name, params) ==
  LET hits == {i \in 1..Len(params) : params[i].name = name}
  IN IF hits = {} THEN [pos |-> None, type |-> "UNDEF"]
     ELSE [pos |-> Min(hits) - 1, type |-> params[Min(hits)].type]

\* get-local, push-result, call-extension(free_str) for slot i (0-based).
FreeLocal(i) ==
  <<GET_LOCAL_VARIABLE(4 + i * 4), PUSH_RESULT, CALL_EXTENSION("free_str")>>

RECURSIVE FreeAll(_, _, _)
\* Frees of the STRING bindings among f[lo+1 .. Len(f)], in slot order,
\* skipping the bindings called skip.
FreeAll(f, lo, skip) ==
  IF lo >= Len(f) THEN <<>>
  ELSE (IF f[lo + 1].type = "STRING" /\ f[lo + 1].name # skip
        THEN FreeLocal(lo) ELSE <<>>) \o FreeAll(f, lo + 1, skip)

\* A comparison that reads the observed types in evaluation order, not
\* reversed back to source order.
check_arg_types_unreversed(arg_types, expected_types) ==
  IF Len(arg_types) # Len(expected_types) THEN -1
  ELSE LET n == Len(arg_types)
           bad == {i \in 1..n : arg_types[i] \notin expected_types[i]}
       IN IF bad = {} THEN 0 ELSE Min(bad)

\* 0 when the observed types (in evaluation order, last source argument
\* first) match the signature, -1 on an arity mismatch, else the reported
\* 1-based argument position.
check_arg_types(arg_types, expected_types) ==
  IF Len(arg_types) # Len(expected_types) THEN -1
  ELSE LET n == Len(arg_types)
           bad == {i \in 1..n : arg_types[n + 1 - i] \notin expected_types[i]}
       IN IF bad = {} THEN 0 ELSE Min(bad)

free_arguments(args, arg_types) ==
  [i \in 1..Len(args) |->
     IF arg_types[i] = "STRING" /\ ~args[i].atom
     THEN CALL_EXTENSION("free_str")
     ELSE CLEAR_STACK(4)]

\* A peek that answers a default descriptor on an empty loop stack.
loop_top_default(loop_ids) ==
  IF loop_ids = <<>> THEN [ok |-> TRUE, id |-> 0, depth |-> 0]
  ELSE [ok |-> TRUE, id |-> Last(loop_ids)[1], depth |-> Last(loop_ids)[2]]

\* LOOP_IDS[-1]: IndexError (ok = FALSE) on an empty loop stack.
loop_top(loop_ids) ==
  IF loop_ids = <<>> THEN [ok |-> FALSE, id |-> 0, depth |-> 0]
  ELSE [ok |-> TRUE, id |-> Last(loop_ids)[1], depth |-> Last(loop_ids)[2]]

\* A loop break that frees and pops every slot of the frame, those bound
\* before the loop included.
free_at_loop_break_whole_frame(frame_vars, loop_ids) ==
  LET f == flatten(frame_vars)
  IN IF ~loop_top(loop_ids).ok THEN [ok |-> FALSE, asm |-> <<>>]
     ELSE [ok |-> TRUE,
           asm |-> FreeAll(f, 0, "") \o
                   [i \in 1..Len(f) |-> POP_LOCAL_VARIABLE]]

\* [ok, asm]: the frees, then the pops, of the slots above the loop's depth.
free_at_loop_break(frame_vars, loop_ids) ==
  LET f == flatten(frame_vars)
      start == Len(flatten(Take(frame_vars, loop_top(loop_ids).depth)))
  IN IF ~loop_top(loop_ids).ok THEN [ok |-> FALSE, asm |-> <<>>]
     ELSE [ok |-> TRUE,
           asm |-> FreeAll(f, start, "") \o
                   [i \in 1..(Len(f) - start) |-> POP_LOCAL_VARIABLE]]

S_OR_L == {"STRING_LIT", "STRING"}

\* A signature of single tags: each is matched by equality.
Tags(types) == [i \in 1..Len(types) |-> {types[i]}]

ExtSignature(kw) ==
  CASE kw \in {"println", "print", "String", "Reverse", "len"} -> <<S_OR_L>>
    [] kw = "free_str" -> <<{"STRING"}>>
    [] kw \in {"print_i", "println_i", "Int2Str"} -> <<{"INT"}>>
    [] kw = "Concat" -> <<S_OR_L, S_OR_L>>
    [] kw \in {"Substr", "Upper", "Lower"} -> <<S_OR_L, {"INT"}, {"INT"}>>

ExtReturn(kw) ==
  CASE kw \in {"Int2Str", "String", "Concat", "Substr", "Reverse",
               "Upper", "Lower"} -> "STRING"
    [] kw = "len" -> "INT"
    [] OTHER -> "UNDEF"

\* Index of name in the function table, 0 when absent.
FnIndex(fns, name) ==
  LET hits == {i \in 1..Len(fns) : fns[i].name = name}
  IN IF hits = {} THEN 0 ELSE Min(hits)

---------------------------------------------------------------------------
\* eval on atoms and on the calls whose arguments are all evaluated and
\* pushed (compiler.py:367-402, 625-770).  An evaluation state r carries the
\* buffer, the counter and the literal pool through the recursion:
\* st is "ok", "error" (sys.exit) or "crash" (uncaught IndexError).

Fail(r, pos) == [r EXCEPT !.st = "error", !.errpos = pos]

Crash(r) == [r EXCEPT !.st = "crash"]

Emit(r, instrs, type) == [r EXCEPT !.asm = @ \o instrs, !.type = type]

EvalAtom(t, r) ==
  LET v == find_variable(t, CurFrame.vars)
      p == find_parameter(t, CurFrame.params)
      id == get_unique_count(r.uc)
  IN IF t = "" THEN [r EXCEPT !.type = "UNDEF"]
     ELSE IF v.pos # None
       THEN Emit(r, <<GET_LOCAL_VARIABLE(4 + v.pos * 4)>>, v.type)
     ELSE IF p.pos # None
       THEN Emit(r, <<GET_PARAMETER(8 + p.pos * 4)>>, p.type)
     ELSE IF isdigit(t) \/ is_negative(t)
       THEN Emit(r, <<Ins("literal", 0, t)>>, "INT")
     ELSE IF is_str_lit(t)
       THEN [r EXCEPT !.uc = id,
                      !.lits = Append(@, Ins("data_string", id, t)),
                      !.asm = Append(@, Ins("literal", id, "string_")),
                      !.type = "STRING_LIT"]
     ELSE Fail(r, 0)

\* The dispatch on kw once the arguments are pushed; t are the observed
\* types in evaluation order.
Dispatch(kw, args, r, t) ==
  LET chk(sig) == check_arg_types(t, sig)
      id == get_unique_count(r.uc)
      lb == free_at_loop_break(CurFrame.vars, LOOP_IDS)
      fi == FnIndex(FUNCTIONS, kw)
      v == find_variable(args[1].kw, CurFrame.vars)
  IN CASE kw = "exit" ->
            IF Len(args) = 0
            THEN Emit(r, <<Ins("literal", 0, "0"), PUSH_RESULT,
                           Ins("exit", 0, "")>>, "UNDEF")
            ELSE IF chk(<<{"INT"}>>) # 0 THEN Fail(r, chk(<<{"INT"}>>))
            ELSE Emit(r, <<Ins("exit", 0, "")>>, "UNDEF")
       [] kw = "println" /\ Len(args) = 0 ->
            Emit(r, <<CALL_EXTENSION(kw)>>, "UNDEF")
       [] kw = "println" /\ Len(args) > 0 ->
            IF chk(ExtSignature(kw)) # 0 THEN Fail(r, chk(ExtSignature(kw)))
            ELSE Emit(r, <<CALL_EXTENSION("print"), CALL_EXTENSION(kw)>>
                         \o free_arguments(args, t), "UNDEF")
       [] kw = "free_str" ->
            IF chk(ExtSignature(kw)) # 0 THEN Fail(r, chk(ExtSignature(kw)))
            ELSE Emit(r, <<CALL_EXTENSION(kw)>>, "UNDEF")
       [] kw \in EXTENSIONS \ {"println", "free_str"} ->
            IF chk(ExtSignature(kw)) # 0 THEN Fail(r, chk(ExtSignature(kw)))
            ELSE Emit(r, <<CALL_EXTENSION(kw)>> \o free_arguments(args, t),
                      ExtReturn(kw))
       [] kw \in {"inc", "dec"} ->
            IF chk(<<{"INT"}>>) # 0 THEN Fail(r, chk(<<{"INT"}>>))
            ELSE IF args[1].atom /\ v.pos # None
              THEN Emit(r, <<Ins(kw, 4 + v.pos * 4, "")>>, "UNDEF")
            ELSE Fail(r, 0)
       [] kw \in UNARIES ->
            IF chk(<<{"INT"}>>) # 0 THEN Fail(r, chk(<<{"INT"}>>))
            ELSE Emit(r, <<Ins("unary", 0, kw)>>, "INT")
       [] kw \in BINARIES ->
            IF chk(<<{"INT"}, {"INT"}>>) # 0
            THEN Fail(r, chk(<<{"INT"}, {"INT"}>>))
            ELSE Emit(r, <<Ins("binary", 0, kw)>>, "INT")
       [] kw \in COMPARISONS ->
            IF chk(<<{"INT"}, {"INT"}>>) # 0
            THEN Fail(r, chk(<<{"INT"}, {"INT"}>>))
            ELSE [Emit(r, <<Ins("comparison", id, kw)>>, "INT")
                    EXCEPT !.uc = id]
       [] kw \in LOGICALS ->
            LET sig == IF kw = "not" THEN <<{"INT"}>>
                       ELSE <<{"INT"}, {"INT"}>>
            IN IF chk(sig) # 0 THEN Fail(r, chk(sig))
               ELSE [Emit(r, <<Ins("logical", id, kw)>>, "INT")
                       EXCEPT !.uc = id]
       [] kw = "check_overflow" ->
            IF chk(<<>>) # 0 THEN Fail(r, chk(<<>>))
            ELSE [Emit(r, <<Ins("check_overflow", id, "")>>, "INT")
                    EXCEPT !.uc = id]
       [] kw \in {"break", "continue"} ->
            IF chk(<<>>) # 0 THEN Fail(r, chk(<<>>))
            ELSE IF ~lb.ok THEN Crash(r)
            ELSE Emit(r, lb.asm \o <<Ins(IF kw = "break" THEN "while_break"
                                              ELSE "while_continue",
                                              loop_top(LOOP_IDS).id, "")>>,
                      "UNDEF")
       [] OTHER ->
            IF fi = 0 THEN Fail(r, 0)
            ELSE IF chk(Tags(FUNCTIONS[fi].param_types)) # 0
              THEN Fail(r, chk(Tags(FUNCTIONS[fi].param_types)))
            ELSE Emit(r, <<FUNCTION_CALL(kw, Len(args) * 4)>>
                         \o free_arguments(args, t), FUNCTIONS[fi].return_type)

RECURSIVE EvalG(_, _)
RECURSIVE EvalArgs(_, _, _, _)

\* Arguments k, k-1, .. 1 evaluated and pushed in that order.
EvalArgs(args, k, r, t) ==
  IF k = 0 THEN [r |-> r, types |-> t]
  ELSE LET r1 == EvalG(args[k], r)
       IN IF r1.st # "ok" THEN [r |-> r1, types |-> t]
          ELSE EvalArgs(args, k - 1,
                        [r1 EXCEPT !.asm = Append(@, PUSH_RESULT)],
                        Append(t, r1.type))

EvalG(e, r) ==
  IF e.atom THEN EvalAtom(e.kw, r)
  ELSE LET ra == EvalArgs(e.args, Len(e.args), r, <<>>)
       IN IF ra.r.st # "ok" THEN ra.r
          ELSE Dispatch(e.kw, e.args, ra.r, ra.types)

\* The evaluation state eval starts from in the current compiler state.
R0 == [st |-> "ok", asm |-> asm, uc |-> UNIQUE_COUNTER, lits |-> LITERALS,
       type |-> "UNDEF", errpos |-> 0]

---------------------------------------------------------------------------
\* The inputs: the expressions a program is made of.

VarNames == {"x", "y"}

SetNames == {"x"}

FnNames == {"f"}

STRING_TEMP == C("String", <<A("'a'")>>)

\* Right-hand sides of var and set, and arguments of return.
Rhs == {A("x"), A("p"), A("1"), STRING_TEMP}

Conds == {A("1")}

ParamLists == {<<>>, <<[name |-> "p", type |-> "STRING"],
                       [name |-> "q", type |-> "INT"]>>}

RetTypes == {"UNDEF", "STRING"}

ReturnArgs == {<<>>, <<A("x")>>, <<STRING_TEMP>>}

\* Calls evaluated as statements.
Calls == {C("break", <<>>), C("continue", <<>>),
          C("println", <<A("x")>>),
          C("Concat", <<STRING_TEMP, A("'a'")>>),
          C("Concat", <<A("x"), A("1")>>),
          C("f", <<A("x"), A("1")>>),
          C("f", <<STRING_TEMP, C("len", <<A("x")>>)>>),
          C("not", <<C("lt", <<A("1"), C("check_overflow", <<>>)>>)>>)}

---------------------------------------------------------------------------
\* State changes shared by the actions.

Entry(kind, id, name, saved) ==
  [kind |-> kind, id |-> id, name |-> name, asm |-> saved]

SetVars(frames, v) == [frames EXCEPT ![Len(frames)].vars = v]

\* STACK_FRAMES[-1]['vars'].append([])
PushBlock(frames) == SetVars(frames, Append(Last(frames).vars, <<>>))

\* STACK_FRAMES[-1]['vars'].pop()
PopBlock(frames) == SetVars(frames, ButLast(Last(frames).vars))

\* A while that leaves its descriptor on the loop stack.
PopLoop_keep(loops) == loops

\* LOOP_IDS.pop()
PopLoop(loops) == ButLast(loops)

\* What eval_block emits after the last expression of the block.
BlockEpilogue(frame_vars) ==
  FreeAll(flatten(frame_vars), 0, "") \o
  [i \in 1..Len(Last(frame_vars)) |-> POP_LOCAL_VARIABLE]

\* The move of ownership in var and set: bindings of the innermost block
\* named by the right-hand side become UNDEF.
MoveSource(frame_vars, type, e) ==
  LET blk == Last(frame_vars)
  IN IF type = "STRING"
     THEN [frame_vars EXCEPT ![Len(frame_vars)] =
             [i \in 1..Len(blk) |->
                IF e.atom /\ blk[i].name = e.kw
                THEN [blk[i] EXCEPT !.type = "UNDEF"] ELSE blk[i]]]
     ELSE frame_vars

\* FUNCTIONS[name] = {...}: a new key goes last, an old one keeps its place.
Register(fns, name, params, rtype) ==
  LET d == [name |-> name,
            param_types |-> [i \in 1..Len(params) |-> params[i].type],
            return_type |-> rtype, asm |-> <<>>]
  IN IF FnIndex(fns, name) = 0 THEN Append(fns, d)
     ELSE [fns EXCEPT ![FnIndex(fns, name)] = d]

RECURSIVE FnAsm(_)
FnAsm(fns) == IF fns = <<>> THEN <<>> ELSE Head(fns).asm \o FnAsm(Tail(fns))

\* A program end that frees the STRING variables of main as a block exit
\* does.
ProgramEnd_freeing(frames) ==
  FreeAll(flatten(frames[1].vars), 0, "") \o <<Ins("default_exit", 0, "")>>

\* What main emits after the last top-level expression: nothing is freed.
ProgramEnd(frames) == <<Ins("default_exit", 0, "")>>

\* The text written to OUTFILE.
Output(lits, fns, main_asm, frames) ==
  <<Ins("head", 0, "main"), Ins("data", 0, "")>> \o lits \o
  <<Ins("text", 0, ""), Ins("exit_fn", 0, "")>> \o FnAsm(fns) \o
  <<Ins("start", 0, "main")>> \o main_asm \o ProgramEnd(frames)

\* eval raises: compilation stops, nothing of the expression is kept.
Halt(e, st) ==
  /\ pc' = st.st
  /\ last' = [expr |-> e, type |-> "UNDEF", base |-> Len(asm),
              phase |-> "halt", errpos |-> st.errpos]
  /\ UNCHANGED <<STACK_FRAMES, UNIQUE_COUNTER, LOOP_IDS, FUNCTIONS, LITERALS,
                 asm, ctl, out, nexpr>>

Error == [st |-> "error", errpos |-> 0]

IndexError == [st |-> "crash", errpos |-> 0]

\* eval goes on normally with evaluation state r.
Go(e, r, phase, base) ==
  /\ asm' = r.asm
  /\ UNIQUE_COUNTER' = r.uc
  /\ LITERALS' = r.lits
  /\ last' = [expr |-> e, type |-> r.type, base |-> base,
              phase |-> phase, errpos |-> 0]
  /\ UNCHANGED <<pc, out>>

Running == pc = "run" /\ nexpr < MaxExprs

---------------------------------------------------------------------------
\* The actions.

Init ==
  /\ STACK_FRAMES = <<[name |-> "main", params |-> <<>>, vars |-> << <<>> >>,
                       return_type |-> "UNDEF"]>>
  /\ UNIQUE_COUNTER = 0
  /\ LOOP_IDS = <<>>
  /\ FUNCTIONS = <<>>
  /\ LITERALS = <<>>
  /\ asm = <<>>
  /\ ctl = <<>>
  /\ out = <<>>
  /\ pc = "run"
  /\ nexpr = 0
  /\ last = [expr |-> A(""), type |-> "UNDEF", base |-> 0, phase |-> "return",
             errpos |-> 0]

\* var(name, e)
EvalVar(name, e) ==
  LET expr == C("var", <<A(name), e>>)
      blk == Last(CurFrame.vars)
      r == EvalG(e, R0)
      r1 == [r EXCEPT !.asm = Append(@, PUSH_RESULT), !.type = "UNDEF"]
      moved == MoveSource(CurFrame.vars, r.type, e)
  IN /\ Running
     /\ IF \E i \in 1..Len(blk) : blk[i].name = name
          THEN Halt(expr, Error)
        ELSE IF \E i \in 1..Len(CurFrame.params) : CurFrame.params[i].name = name
          THEN Halt(expr, Error)
        ELSE IF r.st # "ok" THEN Halt(expr, r)
        ELSE IF r.type \notin {"INT", "STRING", "STRING_LIT"}
          THEN Halt(expr, Error)
        ELSE /\ Go(expr, r1, "return", Len(asm))
             /\ STACK_FRAMES' = SetVars(STACK_FRAMES,
                  [moved EXCEPT ![Len(moved)] =
                     Append(@, [name |-> name, type |-> r.type])])
             /\ nexpr' = nexpr + 1
             /\ UNCHANGED <<LOOP_IDS, FUNCTIONS, ctl>>

\* set(name, e)
EvalSet(name, e) ==
  LET expr == C("set", <<A(name), e>>)
      v == find_variable(name, CurFrame.vars)
      r == EvalG(e, R0)
      r1 == [r EXCEPT
               !.asm = @ \o <<PUSH_RESULT>> \o
                       (IF r.type = "STRING" THEN FreeLocal(v.pos) ELSE <<>>)
                       \o <<Ins("set", 4 + v.pos * 4, "")>>,
               !.type = "UNDEF"]
  IN /\ Running
     /\ IF v.pos = None THEN Halt(expr, Error)
        ELSE IF r.st # "ok" THEN Halt(expr, r)
        ELSE IF r.type # v.type THEN Halt(expr, Error)
        ELSE /\ Go(expr, r1, "return", Len(asm))
             /\ STACK_FRAMES' = SetVars(STACK_FRAMES,
                                        MoveSource(CurFrame.vars, r.type, e))
             /\ nexpr' = nexpr + 1
             /\ UNCHANGED <<LOOP_IDS, FUNCTIONS, ctl>>

\* block({ ...
EvalBlock ==
  LET expr == C("block", <<>>)
  IN /\ Running
     /\ Go(expr, R0, "enter", Len(asm))
     /\ STACK_FRAMES' = PushBlock(STACK_FRAMES)
     /\ ctl' = Append(ctl, Entry("block", 0, "", <<>>))
     /\ nexpr' = nexpr + 1
     /\ UNCHANGED <<LOOP_IDS, FUNCTIONS>>

\* if(cond, { ...
EvalIf(cond) ==
  LET expr == C("if", <<cond>>)
      id == get_unique_count(UNIQUE_COUNTER)
      r == EvalG(cond, [R0 EXCEPT !.uc = id])
      r1 == Emit(r, <<PUSH_RESULT, Ins("if_start", id, "")>>, "BLOCK")
  IN /\ Running
     /\ IF r.st # "ok" THEN Halt(expr, r)
        ELSE IF r.type # "INT" THEN Halt(expr, Error)
        ELSE /\ Go(expr, r1, "enter", Len(asm))
             /\ STACK_FRAMES' = PushBlock(STACK_FRAMES)
             /\ ctl' = Append(ctl, Entry("if", id, "", <<>>))
             /\ nexpr' = nexpr + 1
             /\ UNCHANGED <<LOOP_IDS, FUNCTIONS>>

\* while(cond, { ...
EvalWhile(cond) ==
  LET expr == C("while", <<cond>>)
      id == get_unique_count(UNIQUE_COUNTER)
      r == EvalG(cond, [R0 EXCEPT !.uc = id,
                          !.asm = Append(@, Ins("while_start", id, ""))])
      r1 == Emit(r, <<PUSH_RESULT, Ins("while_condition_eval", id, "")>>,
                 "BLOCK")
  IN /\ Running
     /\ IF r.st # "ok" THEN Halt(expr, r)
        ELSE IF r.type # "INT" THEN Halt(expr, Error)
        ELSE /\ Go(expr, r1, "enter", Len(asm))
             /\ LOOP_IDS' = Append(LOOP_IDS, <<id, Len(CurFrame.vars)>>)
             /\ STACK_FRAMES' = PushBlock(STACK_FRAMES)
             /\ ctl' = Append(ctl, Entry("while", id, "", <<>>))
             /\ nexpr' = nexpr + 1
             /\ UNCHANGED FUNCTIONS

\* function(name, params, rtype, { ...
EvalFunction(name, params, rtype) ==
  LET expr == C("function", <<A(name)>>)
      frame == [name |-> name, params |-> params, vars |-> <<>>,
                return_type |-> rtype]
  IN /\ Running
     /\ FUNCTIONS' = Register(FUNCTIONS, name, params, rtype)
     /\ STACK_FRAMES' = PushBlock(Append(STACK_FRAMES, frame))
     /\ ctl' = Append(ctl, Entry("function", 0, name, asm))
     /\ Go(expr, [R0 EXCEPT !.asm = <<Ins("function_start", 0, name)>>,
                            !.type = rtype], "enter", 0)
     /\ nexpr' = nexpr + 1
     /\ UNCHANGED LOOP_IDS

\* return(args)
EvalReturn(args) ==
  LET expr == C("return", args)
      rtype == CurFrame.return_type
      f == flatten(CurFrame.vars)
      skip == IF args[1].atom THEN args[1].kw ELSE ""
      r == EvalG(args[1], Emit(R0, FreeAll(f, 0, skip), "UNDEF"))
      done(r0) == Emit(r0, <<Ins("return", 0, "")>>, rtype)
  IN /\ Running
     /\ IF \/ rtype = "UNDEF" /\ Len(args) # 0
           \/ rtype # "UNDEF" /\ Len(args) = 0
           \/ Len(args) > 1
          THEN Halt(expr, Error)
        ELSE IF Len(args) = 0
          THEN IF \E i \in 1..Len(f) : f[i].type = "STRING"
                 THEN Halt(expr, IndexError)
               ELSE /\ Go(expr, done(R0), "return", Len(asm))
                    /\ nexpr' = nexpr + 1
                    /\ UNCHANGED <<STACK_FRAMES, LOOP_IDS, FUNCTIONS, ctl>>
        ELSE IF r.st # "ok" THEN Halt(expr, r)
        ELSE IF r.type # rtype THEN Halt(expr, Error)
        ELSE /\ Go(expr, done(r), "return", Len(asm))
             /\ nexpr' = nexpr + 1
             /\ UNCHANGED <<STACK_FRAMES, LOOP_IDS, FUNCTIONS, ctl>>

\* Any other call kw(args) as an expression of its own.
EvalCall(e) ==
  LET r == EvalG(e, R0)
  IN /\ Running
     /\ IF r.st # "ok" THEN Halt(e, r)
        ELSE /\ Go(e, r, "return", Len(asm))
             /\ nexpr' = nexpr + 1
             /\ UNCHANGED <<STACK_FRAMES, LOOP_IDS, FUNCTIONS, ctl>>

\* ... }) of block
ExitBlock ==
  /\ pc = "run" /\ ctl # <<>> /\ Last(ctl).kind = "block"
  /\ Go(C("block", <<>>), Emit(R0, BlockEpilogue(CurFrame.vars), "BLOCK"),
        "return", Len(asm))
  /\ STACK_FRAMES' = PopBlock(STACK_FRAMES)
  /\ ctl' = ButLast(ctl)
  /\ UNCHANGED <<LOOP_IDS, FUNCTIONS, nexpr>>

\* ... }) of an if without else, or ... }, { of an if with else
ExitThen(has_else) ==
  LET id == Last(ctl).id
      r == Emit(R0, BlockEpilogue(CurFrame.vars)
                    \o <<Ins("else_start", id, "")>>, "BLOCK")
  IN /\ pc = "run" /\ ctl # <<>> /\ Last(ctl).kind = "if"
     /\ IF has_else
          THEN /\ Go(C("if", <<>>), r, "else", Len(asm))
               /\ STACK_FRAMES' = PushBlock(PopBlock(STACK_FRAMES))
               /\ ctl' = Append(ButLast(ctl), Entry("else", id, "", <<>>))
          ELSE /\ Go(C("if", <<>>), Emit(r, <<Ins("if_end", id, "")>>, "BLOCK"),
                     "return", Len(asm))
               /\ STACK_FRAMES' = PopBlock(STACK_FRAMES)
               /\ ctl' = ButLast(ctl)
     /\ UNCHANGED <<LOOP_IDS, FUNCTIONS, nexpr>>

\* ... }) of the else block
ExitElse ==
  LET id == Last(ctl).id
  IN /\ pc = "run" /\ ctl # <<>> /\ Last(ctl).kind = "else"
     /\ Go(C("if", <<>>),
           Emit(R0, BlockEpilogue(CurFrame.vars) \o <<Ins("if_end", id, "")>>,
                "BLOCK"), "return", Len(asm))
     /\ STACK_FRAMES' = PopBlock(STACK_FRAMES)
     /\ ctl' = ButLast(ctl)
     /\ UNCHANGED <<LOOP_IDS, FUNCTIONS, nexpr>>

\* ... }) of while
ExitWhile ==
  LET id == Last(ctl).id
  IN /\ pc = "run" /\ ctl # <<>> /\ Last(ctl).kind = "while"
     /\ Go(C("while", <<>>),
           Emit(R0, BlockEpilogue(CurFrame.vars) \o <<Ins("while_end", id, "")>>,
                "BLOCK"), "return", Len(asm))
     /\ STACK_FRAMES' = PopBlock(STACK_FRAMES)
     /\ LOOP_IDS' = PopLoop(LOOP_IDS)
     /\ ctl' = ButLast(ctl)
     /\ UNCHANGED <<FUNCTIONS, nexpr>>

\* ... }) of function: the body goes to the function table, the caller's
\* buffer is taken up again.
ExitFunction ==
  LET name == Last(ctl).name
      fn_asm == asm \o BlockEpilogue(CurFrame.vars)
                    \o <<Ins("function_end", 0, name)>>
  IN /\ pc = "run" /\ ctl # <<>> /\ Last(ctl).kind = "function"
     /\ FUNCTIONS' = [FUNCTIONS EXCEPT ![FnIndex(FUNCTIONS, name)].asm = fn_asm]
     /\ STACK_FRAMES' = ButLast(STACK_FRAMES)
     /\ Go(C("function", <<A(name)>>),
           [R0 EXCEPT !.asm = Last(ctl).asm, !.type = CurFrame.return_type],
           "return", Len(Last(ctl).asm))
     /\ ctl' = ButLast(ctl)
     /\ UNCHANGED <<LOOP_IDS, nexpr>>

\* End of the program: main writes OUTFILE.
Finish ==
  /\ pc = "run" /\ ctl = <<>>
  /\ out' = Output(LITERALS, FUNCTIONS, asm, STACK_FRAMES)
  /\ pc' = "done"
  /\ UNCHANGED <<STACK_FRAMES, UNIQUE_COUNTER, LOOP_IDS, FUNCTIONS, LITERALS,
                 asm, ctl, nexpr, last>>

Next ==
  \/ \E name \in VarNames, e \in Rhs : EvalVar(name, e)
  \/ \E name \in SetNames, e \in Rhs : EvalSet(name, e)
  \/ EvalBlock
  \/ \E cond \in Conds : EvalIf(cond)
  \/ \E cond \in Conds : EvalWhile(cond)
  \/ \E name \in FnNames, params \in ParamLists, rtype \in RetTypes :
       EvalFunction(name, params, rtype)
  \/ \E args \in ReturnArgs : EvalReturn(args)
  \/ \E e \in Calls : EvalCall(e)
  \/ ExitBlock
  \/ \E has_else \in BOOLEAN : ExitThen(has_else)
  \/ ExitElse
  \/ ExitWhile
  \/ ExitFunction
  \/ Finish

Spec == Init /\ [][Next]_vars

---------------------------------------------------------------------------
\* Reading the emitted text.

\* What the last eval appended to the buffer it was given.
Emitted == SubSeq(asm, last.base + 1, Len(asm))

\* Positions in text where the free sequence of a local slot starts.
FreeSites(text) ==
  {k \in 1..(Len(text) - 2) :
     /\ text[k].op = "get_local"
     /\ text[k + 1] = PUSH_RESULT
     /\ text[k + 2] = CALL_EXTENSION("free_str")}

SlotOf(i) == (i.a - 4) \div 4

FreedSlots(text) == {SlotOf(text[k]) : k \in FreeSites(text)}

FreeCount(text, slot) ==
  Cardinality({k \in FreeSites(text) : SlotOf(text[k]) = slot})

RECURSIVE SumSeq(_)
SumSeq(s) == IF s = <<>> THEN 0 ELSE Head(s) + SumSeq(Tail(s))

Count(text, P(_)) == Cardinality({k \in 1..Len(text) : P(text[k])})

\* The part of the written file after the start label: main's code.
MainPart(text) ==
  LET k == CHOOSE j \in 1..Len(text) : text[j].op = "start"
  IN SubSeq(text, k + 1, Len(text))

\* The observed type of e in the current frame.
TypeOf(e) == EvalG(e, R0).type

Returned(kws) ==
  pc = "run" /\ last.phase = "return" /\ ~last.expr.atom /\ last.expr.kw \in kws

\* The calls after which free_arguments runs.
ArgFreeingCall(e) ==
  /\ ~e.atom
  /\ \/ e.kw \in EXTENSIONS \ {"free_str"}
     \/ e.kw \in FnNames /\ FnIndex(FUNCTIONS, e.kw) # 0

---------------------------------------------------------------------------
\* C1: when the block of a block, if or while is left, the frees eval_block
\* emits are only for slots of the block being left: no STRING binding of an
\* enclosing block of the frame (a lower slot, still live afterwards) is
\* freed there, to be freed again at its own block's exit.
C1_BlockExitFreesOnlyOwnBlock ==
  (pc = "run" /\ last.phase \in {"return", "else"}
     /\ last.expr.kw \in {"block", "if", "while"})
  => \A slot \in FreedSlots(Emitted) : slot >= Len(flatten(CurFrame.vars))

\* C2: after a successful var(x, y) with y a bare identifier that resolved
\* to a STRING binding of the current frame (a local of any block, or a
\* parameter), x is STRING and y is UNDEF.
C2_VarMovesStringSource ==
  LET rhs == last.expr.args[2]
      blk == Last(CurFrame.vars)
      before == [CurFrame.vars EXCEPT ![Len(CurFrame.vars)] = ButLast(blk)]
      src == find_variable(rhs.kw, before)
      par == find_parameter(rhs.kw, CurFrame.params)
  IN (Returned({"var"}) /\ rhs.atom /\ Last(blk).type = "STRING")
     => IF src.pos # None THEN src.type = "UNDEF" ELSE par.type = "UNDEF"

\* C3 as stated: once the program is compiled, the emitted program holds
\* exactly one free of the slot of every STRING variable of the outermost
\* block of main.
C3_TopLevelStringFreedOnce ==
  pc = "done"
  => \A i \in 1..Len(STACK_FRAMES[1].vars[1]) :
       STACK_FRAMES[1].vars[1][i].type = "STRING"
       => FreeCount(MainPart(out), i - 1) = 1

\* C3 as amended: the end of the program frees nothing: the written program
\* holds, for every slot, exactly the frees emitted while the top-level
\* expressions were evaluated, and ends with the default exit.
C3_ProgramEndFreesNothing ==
  pc = "done"
  => /\ \A i \in 0..Len(flatten(STACK_FRAMES[1].vars)) :
          FreeCount(MainPart(out), i) = FreeCount(asm, i)
     /\ Last(out).op = "default_exit"

\* C3 witness: a compiled program whose top-level STRING variable is never
\* freed.
C3_Witness ==
  /\ pc = "done"
  /\ \E i \in 1..Len(STACK_FRAMES[1].vars[1]) :
       /\ STACK_FRAMES[1].vars[1][i].type = "STRING"
       /\ FreeCount(MainPart(out), i - 1) = 0

\* C4: after a call with n >= 1 arguments that free_arguments follows, the
\* last n instructions are, for each source argument i in order, a free_str
\* call if argument i's own observed type is STRING and it is a compound
\* call, and clear-stack(4) otherwise.
C4_FreeArgumentsPerArgument ==
  LET e == last.expr
      n == Len(e.args)
      fa == SubSeq(Emitted, Len(Emitted) - n + 1, Len(Emitted))
  IN (pc = "run" /\ last.phase = "return" /\ ArgFreeingCall(e) /\ n >= 1)
     => \A i \in 1..n :
          fa[i] = IF TypeOf(e.args[i]) = "STRING" /\ ~e.args[i].atom
                  THEN CALL_EXTENSION("free_str") ELSE CLEAR_STACK(4)

\* Stack slots an emitted instruction takes off the run-time stack: free_str
\* and clear-stack(4) one each, function-call(name, 4*n) n.
SlotsCleared(i) ==
  IF i.op \in {"function_call", "clear_stack"} THEN i.a \div 4
  ELSE IF i = CALL_EXTENSION("free_str") THEN 1
  ELSE 0

\* C5: the text emitted for an extension or user-defined call (its arguments
\* being atoms or such calls) holds as many push-result as its stack-clearing
\* instructions take slots off.
C5_BalancedEmission ==
  LET IsPush(i) == i = PUSH_RESULT
  IN (pc = "run" /\ last.phase = "return" /\ ArgFreeingCall(last.expr))
     => Count(Emitted, IsPush)
        = SumSeq([k \in 1..Len(Emitted) |-> SlotsCleared(Emitted[k])])

\* C6: a return whose arity is legal and whose argument has the frame's
\* return type compiles, and emits exactly one free for every STRING binding
\* of the frame but those named by a bare-identifier argument.
C6_ReturnFreesLocals ==
  LET args == last.expr.args
      f == flatten(CurFrame.vars)
      legal == IF CurFrame.return_type = "UNDEF" THEN Len(args) = 0
               ELSE Len(args) = 1 /\ EvalG(args[1], R0).st = "ok"
                    /\ TypeOf(args[1]) = CurFrame.return_type
  IN (~last.expr.atom /\ last.expr.kw = "return" /\ legal)
     => /\ pc \in {"run", "done"}
        /\ last.phase = "return"
        /\ \A i \in 1..Len(f) :
             FreeCount(Emitted, i - 1) =
               IF f[i].type = "STRING"
                  /\ ~(Len(args) = 1 /\ args[1].atom /\ args[1].kw = f[i].name)
               THEN 1 ELSE 0

\* C7: break or continue evaluated on an empty loop stack stops the
\* compilation at that expression: nothing was appended to the buffer and no
\* output is written.
C7_BreakOutsideLoopHalts ==
  (~last.expr.atom /\ last.expr.kw \in {"break", "continue"}
     /\ LOOP_IDS = <<>>)
  => /\ pc \in {"error", "crash"}
     /\ last.phase = "halt"
     /\ Len(asm) = last.base
     /\ out = <<>>

\* C7 witness: a break was evaluated with no loop open and compilation
\* stopped.
C7_Witness ==
  /\ last.expr = C("break", <<>>)
  /\ LOOP_IDS = <<>>
  /\ pc = "crash"

\* The instructions that carry a freshly drawn id.
Issues(i) ==
  \/ i.op \in {"if_start", "while_start", "comparison", "logical",
               "check_overflow"}
  \/ i.op = "literal" /\ i.s = "string_"

RECURSIVE SavedAsm(_)
SavedAsm(c) == IF c = <<>> THEN <<>> ELSE Head(c).asm \o SavedAsm(Tail(c))

\* All text emitted so far: bodies of functions, suspended and running
\* buffers.
AllText == FnAsm(FUNCTIONS) \o SavedAsm(ctl) \o asm

\* C8: the ids handed out by the unique counter are pairwise distinct, in
\* every buffer and the literal pool, and none exceeds the counter.
C8_UniqueIdsDistinct ==
  LET issued == SelectSeq(AllText, Issues)
      ids == {issued[k].a : k \in 1..Len(issued)}
      labels == {LITERALS[k].a : k \in 1..Len(LITERALS)}
  IN /\ Cardinality(ids) = Len(issued)
     /\ ids \subseteq 1..UNIQUE_COUNTER
     /\ Cardinality(labels) = Len(LITERALS)

\* C8 witness: three ids were handed out, one of them inside a function body.
C8_Witness ==
  /\ UNIQUE_COUNTER >= 3
  /\ Count(AllText, Issues) >= 3
  /\ Count(FnAsm(FUNCTIONS), Issues) >= 1

\* C9: the loop stack is empty at top level outside any while and when a
\* function body starts being evaluated.
C9_LoopStackEmptyAtFunctionEntry ==
  /\ ctl = <<>> => LOOP_IDS = <<>>
  /\ (pc = "run" /\ last.phase = "enter" /\ last.expr.kw = "function")
     => LOOP_IDS = <<>>

\* Pending activations of the given kinds among c.
Open(c, kinds) == Cardinality({k \in 1..Len(c) : c[k].kind \in kinds})

\* The ctl positions of frame j: from its function entry (main: from the
\* bottom) up to the next function entry.
FrameEntries(j) ==
  LET fpos(m) == IF m = 1 THEN 0
                 ELSE CHOOSE k \in 1..Len(ctl) :
                        /\ ctl[k].kind = "function"
                        /\ Open(SubSeq(ctl, 1, k), {"function"}) = m - 1
  IN {k \in 1..Len(ctl) :
        /\ k > fpos(j) \/ (j > 1 /\ k = fpos(j))
        /\ j = Len(STACK_FRAMES) \/ k < fpos(j + 1)}

\* C10: the frame stack, every frame's block stack and the loop stack are
\* as deep as the activations still pending, so that an eval that has
\* returned has popped every frame, block and loop descriptor it pushed; the
\* bottom frame is main.
C10_EvalRestoresDepths ==
  /\ Len(STACK_FRAMES) = 1 + Open(ctl, {"function"})
  /\ STACK_FRAMES[1].name = "main"
  /\ Len(LOOP_IDS) = Open(ctl, {"while"})
  /\ \A j \in 1..Len(STACK_FRAMES) :
       Len(STACK_FRAMES[j].vars)
         = (IF j = 1 THEN 1 ELSE 0) + Cardinality(FrameEntries(j))

\* C10 witness: a while inside a function body inside a block has returned.
C10_Witness ==
  /\ Returned({"while"})
  /\ Len(ctl) = 2
  /\ Last(ctl).kind = "function"


\* The signature a call of kw is checked against.
CheckedSignature(kw) ==
  CASE kw \in EXTENSIONS -> ExtSignature(kw)
    [] kw \in UNARIES -> <<{"INT"}>>
    [] kw \in BINARIES \cup COMPARISONS -> <<{"INT"}, {"INT"}>>
    [] kw \in LOGICALS -> IF kw = "not" THEN <<{"INT"}>>
                          ELSE <<{"INT"}, {"INT"}>>
    [] kw = "check_overflow" -> <<>>
    [] OTHER -> Tags(FUNCTIONS[FnIndex(FUNCTIONS, kw)].param_types)

\* A call whose arguments all evaluate and whose types are then checked
\* against a signature, nothing else deciding whether it succeeds.
CheckedCall(e) ==
  /\ ~e.atom
  /\ \/ e.kw \in EXTENSIONS /\ ~(e.kw = "println" /\ e.args = <<>>)
     \/ e.kw \in UNARIES \cup BINARIES \cup COMPARISONS \cup LOGICALS
     \/ e.kw = "check_overflow"
     \/ e.kw \in FnNames /\ FnIndex(FUNCTIONS, e.kw) # 0
  /\ \A i \in 1..Len(e.args) : EvalG(e.args[i], R0).st = "ok"

\* text with the drawn ids blanked.
Erase(text) ==
  [k \in 1..Len(text) |->
     IF Issues(text[k]) THEN [text[k] EXCEPT !.a = 0] ELSE text[k]]

\* The code of e alone, ids blanked.
Seg(e) ==
  LET t == EvalG(e, R0).asm
  IN Erase(SubSeq(t, Len(asm) + 1, Len(t)))

\* The code of args[k], a push, the code of args[k-1], a push, .. down to
\* args[1] and its push.
RECURSIVE PushedInReverse(_, _)
PushedInReverse(args, k) ==
  IF k = 0 THEN <<>>
  ELSE Seg(args[k]) \o <<PUSH_RESULT>> \o PushedInReverse(args, k - 1)

\* C11: a call with source arguments a1..an checked against a signature
\* succeeds exactly when the arity is n and every ai has a type its tag
\* accepts; it then starts with the code of an, a push, .. the code of a1, a
\* push (a1 is pushed last); it fails with -1 on an arity mismatch and
\* otherwise with the 1-based source position of a mismatching argument.
C11_ArgumentsReversedAndChecked ==
  (CheckedCall(last.expr) /\ last.phase \in {"return", "halt"})
  => LET args == last.expr.args
         n == Len(args)
         sig == CheckedSignature(last.expr.kw)
         bad == IF Len(sig) # n THEN {}
                ELSE {i \in 1..n : TypeOf(args[i]) \notin sig[i]}
         pushed == PushedInReverse(args, n)
     IN /\ (last.phase = "return") <=> (Len(sig) = n /\ bad = {})
        /\ last.phase = "return"
           => /\ Len(Emitted) >= Len(pushed)
              /\ Erase(SubSeq(Emitted, 1, Len(pushed))) = pushed
        /\ last.phase = "halt"
           => /\ pc = "error"
              /\ IF Len(sig) # n THEN last.errpos = -1
                 ELSE last.errpos \in bad

\* C11 witness: Concat(x, 1) with x a STRING stopped on its second source
\* argument, the first one evaluated.
C11_Witness ==
  /\ last.expr = C("Concat", <<A("x"), A("1")>>)
  /\ last.phase = "halt"
  /\ TypeOf(A("x")) = "STRING"
  /\ last.errpos = 2


\* The ctl position of the innermost pending while, 0 when there is none.
InnermostWhile == Max({k \in 1..Len(ctl) : ctl[k].kind = "while"} \cup {0})

\* The innermost pending while was opened in the frame now being compiled.
LoopOfThisFrame ==
  /\ InnermostWhile > 0
  /\ InnermostWhile \in FrameEntries(Len(STACK_FRAMES))
  /\ ctl[InnermostWhile].kind = "while"

\* The number of bindings of the current frame declared before the innermost
\* while opened: those of the blocks opened before it.
BoundBeforeLoop ==
  LET j == Len(STACK_FRAMES)
      blocks == (IF j = 1 THEN 1 ELSE 0)
                + Cardinality({k \in FrameEntries(j) : k < InnermostWhile})
  IN Len(flatten(Take(CurFrame.vars, blocks)))

\* What a break or continue that has returned appended: the frees of the
\* STRING bindings declared since the loop opened, one pop per binding
\* declared since then, the jump with the innermost loop's id.
BreakEmission ==
  LET f == flatten(CurFrame.vars)
      since == {i \in 1..Len(f) : i > BoundBeforeLoop}
      strs == {i \in since : f[i].type = "STRING"}
      nf == Cardinality(strs)
      np == Cardinality(since)
      frees == SubSeq(Emitted, 1, 3 * nf)
  IN /\ Len(Emitted) = 3 * nf + np + 1
     /\ FreedSlots(frees) = {i - 1 : i \in strs}
     /\ \A i \in strs : FreeCount(frees, i - 1) = 1
     /\ \A k \in (3 * nf + 1)..(3 * nf + np) : Emitted[k] = POP_LOCAL_VARIABLE
     /\ Last(Emitted) = Ins(IF last.expr.kw = "break" THEN "while_break"
                            ELSE "while_continue",
                            ctl[InnermostWhile].id, "")

\* C12: a break or continue evaluated inside a while body of the same frame
\* emits the frees of exactly the STRING bindings declared since the loop
\* opened, then one pop per binding declared since then, then the jump with
\* the innermost loop's id; the frames with their blocks, bindings and
\* types, and the loop stack, are left as they were.
C12_BreakFreesSinceLoop ==
  [][(/\ LoopOfThisFrame
      /\ nexpr' = nexpr + 1
      /\ last'.expr \in {C("break", <<>>), C("continue", <<>>)}
      /\ last'.phase = "return")
     => /\ UNCHANGED <<STACK_FRAMES, LOOP_IDS>>
        /\ BreakEmission']_vars

\* C12 witness: a break has returned in a loop of the same frame with a
\* STRING binding declared in the loop body, which it freed and popped.
C12_Witness ==
  /\ Returned({"break", "continue"})
  /\ LoopOfThisFrame
  /\ \E i \in 1..Len(flatten(CurFrame.vars)) :
       /\ i > BoundBeforeLoop
       /\ flatten(CurFrame.vars)[i].type = "STRING"
       /\ i - 1 \in FreedSlots(Emitted)


\* C13: a set(x, e) that succeeds leaves the recorded type of its target
\* binding x as it was; in particular set(x, x) on a STRING x of the
\* innermost block leaves x a STRING.
C13_SetKeepsTargetType ==
  [][(/\ nexpr' = nexpr + 1
      /\ ~last'.expr.atom /\ last'.expr.kw = "set"
      /\ last'.phase = "return")
     => LET x == last'.expr.args[1].kw
        IN find_variable(x, CurFrame'.vars).type
             = find_variable(x, CurFrame.vars).type]_vars

=============================================================================
